---------------------------- MODULE Spec2Model ----------------------------
(***************************************************************************)
(* Model of the messenger backend: MessageController and                   *)
(* ConversationController over the three tables created by                 *)
(* scripts/setup_db.py.                                                    *)
(*                                                                         *)
(* The store is modelled by what each CQL statement says: a table is a set *)
(* of rows with at most one row per primary key, INSERT is an upsert on    *)
(* the primary key, SELECT returns the rows that satisfy the WHERE clause  *)
(* in the clustering order of the table, cut to LIMIT, and UPDATE changes  *)
(* the named column of the rows that satisfy the WHERE clause.  A          *)
(* db.execute call may instead raise (StoreFails), which the handler turns *)
(* into HTTP 500.  send_message requests are served concurrently, one      *)
(* db.execute call being one atomic step.  The read handlers change no     *)
(* table: each is the operator that computes its response from the tables. *)
(* CassandraClient (db/cassandra.py) is the singleton the controllers are  *)
(* constructed with; Init is the state in which it is connected,           *)
(* InitClient the state before its first construction.                     *)
(***************************************************************************)
EXTENDS Integers, Sequences, FiniteSets, TLC

\* ------------------------------------------------------------------ bounds
\* send_message requests accepted over a run (also the pool of uuid4 values)
MaxSends == 3
\* last value of the wall clock
MaxClock == 2

\* db.execute calls that raise over a run
MaxFaults == 1

\* largest limit a read request passes
MaxLimit == 3
\* largest page a read request passes
MaxPage == 2

Users == {"A", "B", "C"}
\* the message_data of the requests: a pair of users in both directions, a
\* second conversation of A, and a message to oneself
Requests ==
    {<<"A", "B", "hi">>, <<"B", "A", "yo">>, <<"A", "C", "hi">>, <<"B", "B", "yo">>}
Procs == {"p1", "p2"}
ConvIds == 1..MaxSends
MsgIds == 1..MaxSends
Times == 0..MaxClock
\* before_timestamp values: every stored time and one later than all of them
Cursors == 0..(MaxClock + 1)
Limits == 1..MaxLimit
Pages == 1..MaxPage

None == "none"

VARIABLES
    conversations,              \* table conversations
    user_conversations,         \* table user_conversations
    messages_by_conversation,   \* table messages_by_conversation
    now,                        \* the last value datetime.utcnow() returned
    pc,                         \* per request: the statement it is about to execute
    req,                        \* per request: message_data and the handler's locals
    responses,                  \* MessageResponse objects returned by send_message
    errors,                     \* per request slot: HTTP status of the last raised HTTPException
    sends,                      \* number of send_message requests accepted so far
    reply,                      \* outcome of the last get_conversation request
    instance,                   \* CassandraClient._instance
    session,                    \* _session of the instance
    handed,                     \* what CassandraClient() calls have returned
    connects                    \* number of sessions cluster.connect has established

vars == <<conversations, user_conversations, messages_by_conversation, now,
          pc, req, responses, errors, sends, reply, instance, session, handed,
          connects>>

\* what send_message does not touch: the read handlers' outcome and the client
notSendVars == <<reply, instance, session, handed, connects>>

\* ------------------------------------------------------------------ schema
\* conversations: PRIMARY KEY conversation_id
ConversationRow(c, parts, t) ==
    [conversation_id |-> c, participant_ids |-> parts, created_at |-> t]

\* user_conversations: PRIMARY KEY (user_id, last_message_timestamp, conversation_id)
UserConversationRow(u, t, c, parts) ==
    [user_id |-> u, last_message_timestamp |-> t, conversation_id |-> c,
     participant_ids |-> parts]

\* messages_by_conversation: PRIMARY KEY (conversation_id, created_at, message_id)
MessageRow(c, t, m, s, text) ==
    [conversation_id |-> c, created_at |-> t, message_id |-> m,
     sender_id |-> s, message_text |-> text]

SameConversationKey(a, b) == a.conversation_id = b.conversation_id

SameUserConversationKey(a, b) ==
    /\ a.user_id = b.user_id
    /\ a.last_message_timestamp = b.last_message_timestamp
    /\ a.conversation_id = b.conversation_id

\* mutant: message_id is left out of the primary key
BadSameMessageKey(a, b) ==
    /\ a.conversation_id = b.conversation_id
    /\ a.created_at = b.created_at

SameMessageKey(a, b) ==
    /\ a.conversation_id = b.conversation_id
    /\ a.created_at = b.created_at
    /\ a.message_id = b.message_id

\* INSERT: an upsert on the primary key
InsertConversationRow(table, row) ==
    {r \in table : ~SameConversationKey(r, row)} \cup {row}

InsertUserConversationRow(table, row) ==
    {r \in table : ~SameUserConversationKey(r, row)} \cup {row}

InsertMessageRow(table, row) ==
    {r \in table : ~SameMessageKey(r, row)} \cup {row}

\* CLUSTERING ORDER BY (last_message_timestamp DESC, conversation_id ASC)
UserConversationBefore(a, b) ==
    \/ a.last_message_timestamp > b.last_message_timestamp
    \/ /\ a.last_message_timestamp = b.last_message_timestamp
       /\ a.conversation_id < b.conversation_id

\* mutant: created_at ascending
BadMessageBefore(a, b) ==
    \/ a.created_at < b.created_at
    \/ /\ a.created_at = b.created_at
       /\ a.message_id > b.message_id

\* CLUSTERING ORDER BY (created_at DESC, message_id DESC)
MessageBefore(a, b) ==
    \/ a.created_at > b.created_at
    \/ /\ a.created_at = b.created_at
       /\ a.message_id > b.message_id

RECURSIVE UserConversationOrder(_)
UserConversationOrder(rows) ==
    IF rows = {} THEN <<>>
    ELSE LET first == CHOOSE r \in rows :
                        \A o \in rows \ {r} : UserConversationBefore(r, o)
         IN  <<first>> \o UserConversationOrder(rows \ {first})

RECURSIVE MessageOrder(_)
MessageOrder(rows) ==
    IF rows = {} THEN <<>>
    ELSE LET first == CHOOSE r \in rows :
                        \A o \in rows \ {r} : MessageBefore(r, o)
         IN  <<first>> \o MessageOrder(rows \ {first})

Min(a, b) == IF a < b THEN a ELSE b

\* mutant: one row more than asked for
BadLimit(rows, n) == SubSeq(rows, 1, Min(n + 1, Len(rows)))

\* LIMIT n
Limit(rows, n) == SubSeq(rows, 1, Min(n, Len(rows)))

\* ------------------------------------------------------------------ queries
\* mutant: the set is compared with the receiver instead of searched for it
BadFindConversation(s, r) ==
    Limit(UserConversationOrder(
              {row \in user_conversations :
                  row.user_id = s /\ row.participant_ids = {r}}), 1)

\* SELECT conversation_id FROM user_conversations
\*  WHERE user_id = s AND participant_ids CONTAINS r LIMIT 1
FindConversation(s, r) ==
    Limit(UserConversationOrder(
              {row \in user_conversations :
                  row.user_id = s /\ r \in row.participant_ids}), 1)

\* mutant: the rows are rewritten under the new clustering key, but only the
\* sender's row is written back
SenderOnlyUpdateLastMessageTimestamp(table, t, s, r, c) ==
    {row \in table : ~(row.user_id \in {s, r} /\ row.conversation_id = c)} \cup
    {UserConversationRow(row.user_id, t, row.conversation_id, row.participant_ids) :
        row \in {x \in table : x.user_id = s /\ x.conversation_id = c}}

\* mutant: the row with the new clustering key is written, the old one stays
BadUpdateLastMessageTimestamp(table, t, s, r, c) ==
    table \cup
    {UserConversationRow(row.user_id, t, row.conversation_id, row.participant_ids) :
        row \in {x \in table : x.user_id \in {s, r} /\ x.conversation_id = c}}

\* UPDATE user_conversations SET last_message_timestamp = t
\*  WHERE user_id IN (s, r) AND conversation_id = c
UpdateLastMessageTimestamp(table, t, s, r, c) ==
    {row \in table : ~(row.user_id \in {s, r} /\ row.conversation_id = c)} \cup
    {UserConversationRow(row.user_id, t, row.conversation_id, row.participant_ids) :
        row \in {x \in table : x.user_id \in {s, r} /\ x.conversation_id = c}}

\* ------------------------------------------------------------------ clock, uuid4
\* datetime.utcnow(): a reading is never earlier than the reading before it
UtcNow == now..MaxClock


InFlight == {p \in Procs : pc[p] # "idle"}

\* uuid4(): an identifier no request has used; identifiers are compared only
\* where two rows of a partition carry the same timestamp
Uuid4(pool, used) == CHOOSE x \in pool \ used : \A y \in pool \ used : x <= y

UsedConvIds ==
    {row.conversation_id : row \in conversations}
    \cup {row.conversation_id : row \in user_conversations}
    \cup {req[p].conversation_id : p \in InFlight}

UsedMsgIds ==
    {row.message_id : row \in messages_by_conversation}
    \cup {req[p].message_id : p \in InFlight}

\* ------------------------------------------------------------------ send_message
NoReply == [id |-> 0, status |-> 0]

NoRequest ==
    [sender_id |-> None, receiver_id |-> None, content |-> None,
     message_id |-> 0, conversation_id |-> 0, participant_ids |-> {},
     timestamp |-> 0]

MessageResponse(r) ==
    [id |-> r.message_id, content |-> r.content, sender_id |-> r.sender_id,
     receiver_id |-> r.receiver_id, created_at |-> r.timestamp,
     conversation_id |-> r.conversation_id]

\* ------------------------------------------------------------------ reads
\* lines 154-161 and 222-229: receiver_id is not stored
MessageItem(row) ==
    [id |-> row.message_id, content |-> row.message_text,
     sender_id |-> row.sender_id, receiver_id |-> None,
     created_at |-> row.created_at, conversation_id |-> row.conversation_id]

MessageItems(rows) == [i \in 1..Len(rows) |-> MessageItem(rows[i])]

\* ... FROM messages_by_conversation WHERE conversation_id = c
MessagesOf(c) == {row \in messages_by_conversation : row.conversation_id = c}

\* mutant: the bound is inclusive
BadMessagesBefore(c, t) == {row \in MessagesOf(c) : row.created_at <= t}

\* ... FROM messages_by_conversation WHERE conversation_id = c AND created_at < t
MessagesBefore(c, t) == {row \in MessagesOf(c) : row.created_at < t}

\* mutant: the WHERE clause is left out
BadConversationsOf(u) == user_conversations

\* ... FROM user_conversations WHERE user_id = u
ConversationsOf(u) == {row \in user_conversations : row.user_id = u}

\* lines 63-70 of conversation_controller.py: message_text of the first row
LastMessageText(c) ==
    LET first == Limit(MessageOrder(MessagesOf(c)), 1)
    IN  IF first # <<>> THEN first[1].message_text ELSE None

\* lines 72-78 of conversation_controller.py
ConversationItem(row, u, other) ==
    [id |-> row.conversation_id, user1_id |-> u, user2_id |-> other,
     last_message_at |-> row.last_message_timestamp,
     last_message_content |-> LastMessageText(row.conversation_id)]

\* mutant: the offset (page - 1) * limit computed at line 149 is applied
BadGetConversationMessages(c, page, limit) ==
    LET rows == MessageOrder(MessagesOf(c))
        offset == (page - 1) * limit
    IN  [total |-> Cardinality(MessagesOf(c)), page |-> page, limit |-> limit,
         data |-> MessageItems(SubSeq(rows, Min(offset, Len(rows)) + 1,
                                      Min(offset + limit, Len(rows))))]

\* MessageController.get_conversation_messages: the PaginatedMessageResponse
GetConversationMessages(c, page, limit) ==
    [total |-> Cardinality(MessagesOf(c)), page |-> page, limit |-> limit,
     data |-> MessageItems(Limit(MessageOrder(MessagesOf(c)), limit))]

\* mutant: before_timestamp is not applied to the queries
BadGetMessagesBeforeTimestamp(c, t, page, limit) ==
    GetConversationMessages(c, page, limit)

\* MessageController.get_messages_before_timestamp: the PaginatedMessageResponse
GetMessagesBeforeTimestamp(c, t, page, limit) ==
    [total |-> Cardinality(MessagesBefore(c, t)), page |-> page, limit |-> limit,
     data |-> MessageItems(Limit(MessageOrder(MessagesBefore(c, t)), limit))]

\* ConversationController.get_user_conversations: the responses it can give.
\* Line 60 takes the first element of participant_ids that is not the user, in
\* the set's iteration order, and raises StopIteration (HTTP 500) when there
\* is none.
GetUserConversations(u, page, limit) ==
    LET rows == Limit(UserConversationOrder(ConversationsOf(u)), limit) IN
    IF \E i \in 1..Len(rows) : rows[i].participant_ids \ {u} = {}
    THEN {[status |-> 500]}
    ELSE {[status |-> 200, total |-> Cardinality(ConversationsOf(u)),
           page |-> page, limit |-> limit,
           data |-> [i \in 1..Len(rows) |-> ConversationItem(rows[i], u, others[i])]] :
             others \in {f \in [1..Len(rows) -> Users] :
                            \A i \in 1..Len(rows) :
                                f[i] \in rows[i].participant_ids \ {u}}}

\* mutant: the handler has no "except HTTPException: raise", so its own 404
\* is turned into 500 by the generic except block
BadGetConversation(c) ==
    LET result == {row \in conversations : row.conversation_id = c} IN
    IF result = {} THEN {[id |-> c, status |-> 500]}
    ELSE {[id |-> c, status |-> 200]}

\* ConversationController.get_conversation: the outcomes it can have.  Lines
\* 122 and 141-142 index the list made of the set participant_ids: the order
\* of the two users is the set's iteration order, and a set of one element
\* raises IndexError (HTTP 500).
GetConversation(c) ==
    LET result == {row \in conversations : row.conversation_id = c} IN
    IF result = {} THEN {[id |-> c, status |-> 404]}
    ELSE LET row == CHOOSE r \in result : TRUE
             last == Limit(MessageOrder(MessagesOf(c)), 1)
         IN  IF Cardinality(row.participant_ids) < 2
             THEN {[id |-> c, status |-> 500]}
             ELSE {[id |-> c, status |-> 200,
                    user1_id |-> order[1], user2_id |-> order[2],
                    last_message_at |-> IF last # <<>> THEN last[1].created_at
                                        ELSE row.created_at,
                    last_message_content |-> IF last # <<>>
                                             THEN last[1].message_text ELSE None] :
                      order \in {o \in row.participant_ids \X row.participant_ids :
                                    o[1] # o[2]}}

\* empty tables, no request
InitStore ==
    /\ conversations = {}
    /\ user_conversations = {}
    /\ messages_by_conversation = {}
    /\ now = 0
    /\ pc = [p \in Procs |-> "idle"]
    /\ req = [p \in Procs |-> NoRequest]
    /\ responses = {}
    /\ errors = [p \in Procs |-> 0]
    /\ sends = 0
    /\ reply = NoReply

\* the controllers have been constructed and the client is connected
Init ==
    /\ InitStore
    /\ instance = "client"
    /\ session = "session"
    /\ handed = {"session"}
    /\ connects = 1

\* lines 33-50: message_id = uuid4(); the lookup; on a miss conversation_id = uuid4()
LookupConversation(p, s, r, text) ==
    /\ pc[p] = "idle"
    /\ sends < MaxSends
    /\ sends' = sends + 1
    /\ errors' = [errors EXCEPT ![p] = 0]
    /\ \E m \in {Uuid4(MsgIds, UsedMsgIds)} :
         LET result == FindConversation(s, r) IN
         IF result # <<>>
         THEN /\ req' = [req EXCEPT ![p] =
                          [sender_id |-> s, receiver_id |-> r, content |-> text,
                           message_id |-> m,
                           conversation_id |-> result[1].conversation_id,
                           participant_ids |-> {}, timestamp |-> 0]]
              /\ pc' = [pc EXCEPT ![p] = "insert_message"]
         ELSE \E c \in {Uuid4(ConvIds, UsedConvIds)} :
              /\ req' = [req EXCEPT ![p] =
                          [sender_id |-> s, receiver_id |-> r, content |-> text,
                           message_id |-> m, conversation_id |-> c,
                           participant_ids |-> {s, r}, timestamp |-> 0]]
              /\ pc' = [pc EXCEPT ![p] = "insert_conversation"]
    /\ UNCHANGED <<conversations, user_conversations, messages_by_conversation,
                   now, responses>>
    /\ UNCHANGED notSendVars

\* mutant: the insert into conversations is left out
BadInsertConversation(p) ==
    /\ pc[p] = "insert_conversation"
    /\ pc' = [pc EXCEPT ![p] = "index_sender"]
    /\ UNCHANGED <<conversations, user_conversations, messages_by_conversation,
                   now, req, responses, errors, sends>>
    /\ UNCHANGED notSendVars

\* lines 54-58
InsertConversation(p) ==
    /\ pc[p] = "insert_conversation"
    /\ \E t \in UtcNow :
         /\ now' = t
         /\ conversations' = InsertConversationRow(conversations,
                ConversationRow(req[p].conversation_id, req[p].participant_ids, t))
    /\ pc' = [pc EXCEPT ![p] = "index_sender"]
    /\ UNCHANGED <<user_conversations, messages_by_conversation, req,
                   responses, errors, sends>>
    /\ UNCHANGED notSendVars

\* lines 61-66
InsertSenderIndex(p) ==
    /\ pc[p] = "index_sender"
    /\ \E t \in UtcNow :
         /\ now' = t
         /\ req' = [req EXCEPT ![p].timestamp = t]
         /\ user_conversations' = InsertUserConversationRow(user_conversations,
                UserConversationRow(req[p].sender_id, t, req[p].conversation_id,
                                    req[p].participant_ids))
    /\ pc' = [pc EXCEPT ![p] = "index_receiver"]
    /\ UNCHANGED <<conversations, messages_by_conversation, responses,
                   errors, sends>>
    /\ UNCHANGED notSendVars

\* mutant: line 67 repeats line 66, the sender's row is written twice
BadInsertReceiverIndex(p) ==
    /\ pc[p] = "index_receiver"
    /\ user_conversations' = InsertUserConversationRow(user_conversations,
           UserConversationRow(req[p].sender_id, req[p].timestamp,
                               req[p].conversation_id, req[p].participant_ids))
    /\ pc' = [pc EXCEPT ![p] = "insert_message"]
    /\ UNCHANGED <<conversations, messages_by_conversation, now, req, responses,
                   errors, sends>>
    /\ UNCHANGED notSendVars

\* line 67
InsertReceiverIndex(p) ==
    /\ pc[p] = "index_receiver"
    /\ user_conversations' = InsertUserConversationRow(user_conversations,
           UserConversationRow(req[p].receiver_id, req[p].timestamp,
                               req[p].conversation_id, req[p].participant_ids))
    /\ pc' = [pc EXCEPT ![p] = "insert_message"]
    /\ UNCHANGED <<conversations, messages_by_conversation, now, req, responses,
                   errors, sends>>
    /\ UNCHANGED notSendVars

\* lines 69-82
InsertMessage(p) ==
    /\ pc[p] = "insert_message"
    /\ \E t \in UtcNow :
         /\ now' = t
         /\ req' = [req EXCEPT ![p].timestamp = t]
         /\ messages_by_conversation' = InsertMessageRow(messages_by_conversation,
                MessageRow(req[p].conversation_id, t, req[p].message_id,
                           req[p].sender_id, req[p].content))
    /\ pc' = [pc EXCEPT ![p] = "update_index"]
    /\ UNCHANGED <<conversations, user_conversations, responses, errors, sends>>
    /\ UNCHANGED notSendVars

\* lines 84-104
UpdateIndex(p) ==
    /\ pc[p] = "update_index"
    /\ user_conversations' = UpdateLastMessageTimestamp(user_conversations,
           req[p].timestamp, req[p].sender_id, req[p].receiver_id,
           req[p].conversation_id)
    /\ responses' = responses \cup {MessageResponse(req[p])}
    /\ pc' = [pc EXCEPT ![p] = "idle"]
    /\ req' = [req EXCEPT ![p] = NoRequest]
    /\ UNCHANGED <<conversations, messages_by_conversation, now, errors, sends>>
    /\ UNCHANGED notSendVars

\* mutant: the handler deletes the message it inserted when the update raises
BadStoreFails(p) ==
    /\ pc[p] # "idle"
    /\ errors' = [errors EXCEPT ![p] = 500]
    /\ pc' = [pc EXCEPT ![p] = "idle"]
    /\ req' = [req EXCEPT ![p] = NoRequest]
    /\ messages_by_conversation' =
          IF pc[p] = "update_index"
          THEN {m \in messages_by_conversation : m.message_id # req[p].message_id}
          ELSE messages_by_conversation
    /\ UNCHANGED <<conversations, user_conversations, now, responses, sends>>
    /\ UNCHANGED notSendVars

\* lines 106-110: the db.execute call the request is at raises
StoreFails(p) ==
    /\ pc[p] # "idle"
    /\ errors' = [errors EXCEPT ![p] = 500]
    /\ pc' = [pc EXCEPT ![p] = "idle"]
    /\ req' = [req EXCEPT ![p] = NoRequest]
    /\ UNCHANGED <<conversations, user_conversations, messages_by_conversation,
                   now, responses, sends>>
    /\ UNCHANGED notSendVars

SendMessage(p) ==
    \/ \E m \in Requests : LookupConversation(p, m[1], m[2], m[3])
    \/ InsertConversation(p)
    \/ InsertSenderIndex(p)
    \/ InsertReceiverIndex(p)
    \/ InsertMessage(p)
    \/ UpdateIndex(p)

\* concurrent requests, no db.execute call raises
Next == \E p \in Procs : SendMessage(p)

Spec == Init /\ [][Next]_vars

\* a get_conversation request is served: the handler only reads
ServeGetConversation(c) ==
    /\ \E rep \in GetConversation(c) : reply' = rep
    /\ UNCHANGED <<conversations, user_conversations, messages_by_conversation,
                   now, pc, req, responses, errors, sends>>
    /\ UNCHANGED <<instance, session, handed, connects>>

\* one request at a time, no db.execute call raises
NextSeq == SendMessage("p1")

SpecSeq == Init /\ [][NextSeq]_vars

\* get_conversation requests served while send_message requests are, one
\* send_message at a time, no db.execute call raises
NextRead ==
    \/ SendMessage("p1")
    \/ \E c \in ConvIds : ServeGetConversation(c)

SpecRead == Init /\ [][NextRead]_vars

\* ------------------------------------------------------------------ CassandraClient
\* the class attributes before the first CassandraClient() call
InitClient ==
    /\ InitStore
    /\ instance = None
    /\ session = None
    /\ handed = {}
    /\ connects = 0

\* __new__, lines 16-19: no instance yet, _connect succeeds, the instance is
\* returned
NewConnects ==
    /\ instance = None
    /\ instance' = "client"
    /\ session' = "session"
    /\ connects' = connects + 1
    /\ handed' = handed \cup {"session"}
    /\ UNCHANGED <<conversations, user_conversations, messages_by_conversation,
                   now, pc, req, responses, errors, sends, reply>>

\* __new__, lines 16-18: no instance yet, _instance is assigned at line 17,
\* then cluster.connect raises at line 28 and the exception leaves __new__
NewConnectRaises ==
    /\ instance = None
    /\ instance' = "client"
    /\ UNCHANGED <<session, handed, connects>>
    /\ UNCHANGED <<conversations, user_conversations, messages_by_conversation,
                   now, pc, req, responses, errors, sends, reply>>

\* __new__, lines 16 and 19: there is an instance, it is returned as it is
NewReturnsInstance ==
    /\ instance # None
    /\ handed' = handed \cup {session}
    /\ UNCHANGED <<instance, session, connects>>
    /\ UNCHANGED <<conversations, user_conversations, messages_by_conversation,
                   now, pc, req, responses, errors, sends, reply>>

\* CassandraClient()
New ==
    \/ NewConnects
    \/ NewConnectRaises
    \/ NewReturnsInstance

\* send_message of a controller whose db has no session: self.session.execute
\* at line 37 of cassandra.py raises AttributeError at the first query, which
\* lines 106-110 of message_controller.py turn into HTTP 500
SendMessageNoSession(p) ==
    /\ None \in handed
    /\ pc[p] = "idle"
    /\ sends < MaxSends
    /\ sends' = sends + 1
    /\ errors' = [errors EXCEPT ![p] = 500]
    /\ UNCHANGED <<conversations, user_conversations, messages_by_conversation,
                   now, pc, req, responses, reply>>
    /\ UNCHANGED <<instance, session, handed, connects>>

\* controllers are constructed while requests are served, one send_message
\* at a time
NextClient ==
    \/ New
    \/ "session" \in handed /\ SendMessage("p1")
    \/ SendMessageNoSession("p1")

SpecClient == InitClient /\ [][NextClient]_vars

\* send_message requests that ended in HTTP 500
FailedSends == sends - Cardinality(responses) - Cardinality(InFlight)

\* one request at a time, any db.execute call may raise
NextFault ==
    \/ SendMessage("p1")
    \/ FailedSends < MaxFaults /\ StoreFails("p1")

SpecFault == Init /\ [][NextFault]_vars

\* ------------------------------------------------------------------ claims
Quiescent == InFlight = {}

\* the requests so far were all between two different users
NoSelfMessage ==
    /\ \A r \in responses : r.sender_id # r.receiver_id
    /\ \A p \in InFlight : req[p].sender_id # req[p].receiver_id

\* C1: in every reachable state, under any interleaving of send_message
\* requests, at most one conversation exists for any pair of users: no two
\* distinct conversation_ids stored in conversations or in user_conversations
\* have the same participant set.
C1_OneConversationPerPair ==
    /\ \A a \in conversations, b \in conversations :
         (Cardinality(a.participant_ids) = 2 /\ a.participant_ids = b.participant_ids)
             => a.conversation_id = b.conversation_id
    /\ \A a \in user_conversations, b \in user_conversations :
         (Cardinality(a.participant_ids) = 2 /\ a.participant_ids = b.participant_ids)
             => a.conversation_id = b.conversation_id

\* C2: with one request at a time and no failure, two send_message calls from
\* the same sender to the same receiver (two different users) resolve to the
\* same conversation_id, and the later one inserts no row into conversations:
\* the pair has exactly one conversations row.
C2_SecondSendSameConversation ==
    \A r1 \in responses :
        r1.sender_id # r1.receiver_id =>
            /\ \A r2 \in responses :
                 (r2.sender_id = r1.sender_id /\ r2.receiver_id = r1.receiver_id)
                     => r2.conversation_id = r1.conversation_id
            /\ \A p \in InFlight :
                 (req[p].sender_id = r1.sender_id /\ req[p].receiver_id = r1.receiver_id)
                     => req[p].conversation_id = r1.conversation_id
            /\ Cardinality({c \in conversations :
                   c.participant_ids = {r1.sender_id, r1.receiver_id}}) = 1

C2_Witness ==
    /\ Quiescent
    /\ \E r1 \in responses, r2 \in responses :
         /\ r1.id # r2.id
         /\ r1.sender_id # r1.receiver_id
         /\ r2.sender_id = r1.sender_id /\ r2.receiver_id = r1.receiver_id
         /\ r2.conversation_id = r1.conversation_id

\* C3: after send_message completes for conversation c (and before the next
\* request), get_conversation_messages of c with a limit of at least the number
\* of stored messages includes the sent message (its id, sender_id and
\* content), and in the returned sequence every message precedes every message
\* with an earlier created_at.
C3_SentMessageListedNewestFirst ==
    Quiescent =>
    \A r \in responses, page \in Pages, limit \in Limits :
        limit >= Cardinality(MessagesOf(r.conversation_id)) =>
            LET data == GetConversationMessages(r.conversation_id, page, limit).data IN
            /\ \E i \in 1..Len(data) :
                 /\ data[i].id = r.id
                 /\ data[i].sender_id = r.sender_id
                 /\ data[i].content = r.content
            /\ \A i \in 1..Len(data), j \in 1..Len(data) :
                 data[j].created_at < data[i].created_at => i < j

C3_Witness ==
    /\ Quiescent
    /\ \E r1 \in responses, r2 \in responses :
         /\ r1.conversation_id = r2.conversation_id
         /\ r1.created_at < r2.created_at
         /\ r1.sender_id # r2.sender_id
         /\ LET data == GetConversationMessages(r1.conversation_id, 1, MaxLimit).data IN
            /\ Len(data) = 2
            /\ data[1].id = r2.id /\ data[2].id = r1.id

\* C4: for every conversation c, after any interleaving of send_message calls
\* none of which failed, the total returned by get_conversation_messages(c),
\* whatever page and limit, is the number of send_message calls that resolved
\* to c and have inserted their message: the calls that returned and those
\* that only have the index update left.
C4_TotalCountsEverySend ==
    \A c \in ConvIds, page \in Pages, limit \in Limits :
        GetConversationMessages(c, page, limit).total =
            Cardinality({r \in responses : r.conversation_id = c})
            + Cardinality({p \in InFlight :
                  pc[p] = "update_index" /\ req[p].conversation_id = c})

C4_Witness ==
    /\ Quiescent
    /\ \E c \in ConvIds :
         /\ GetConversationMessages(c, 1, 1).total = MaxSends
         /\ Cardinality({r \in responses : r.conversation_id = c}) = MaxSends
         /\ \E m1 \in MessagesOf(c), m2 \in MessagesOf(c) :
              m1.message_id # m2.message_id /\ m1.created_at = m2.created_at

\* C5: for every conversation c and timestamp t, get_messages_before_timestamp,
\* served between two send_message requests, returns no message with
\* created_at >= t (and only messages of c), and its total is the number of
\* messages of c with created_at strictly less than t.
C5_BeforeTimestampExclusive ==
    Quiescent =>
    \A c \in ConvIds, t \in Cursors, limit \in Limits :
        LET before == {m \in messages_by_conversation :
                          m.conversation_id = c /\ m.created_at < t}
        IN  \A page \in Pages :
                LET rep == GetMessagesBeforeTimestamp(c, t, page, limit) IN
                /\ \A i \in 1..Len(rep.data) :
                     rep.data[i].created_at < t /\ rep.data[i].conversation_id = c
                /\ rep.total = Cardinality(before)

C5_Witness ==
    /\ Quiescent
    /\ \E c \in ConvIds, t \in Times :
         /\ \E m \in MessagesOf(c) : m.created_at = t
         /\ \E m \in MessagesOf(c) : m.created_at > t
         /\ LET rep == GetMessagesBeforeTimestamp(c, t, 1, MaxLimit) IN
            rep.total = 1 /\ Len(rep.data) = 1 /\ rep.data[1].created_at < t

\* data holds the min(n, k) most recent of the k eligible rows, most recent first
MostRecentFirst(data, eligible, n) ==
    /\ Len(data) = Min(n, Cardinality(eligible))
    /\ \A i \in 1..Len(data) : \E row \in eligible : data[i] = MessageItem(row)
    /\ \A i \in 1..Len(data), j \in 1..Len(data) :
         i < j => /\ data[i].id # data[j].id
                  /\ data[i].created_at >= data[j].created_at
    /\ \A row \in eligible :
         (\A i \in 1..Len(data) : data[i].id # row.message_id)
             => \A i \in 1..Len(data) : row.created_at <= data[i].created_at

\* C6: listing messages with limit n, between two send_message requests,
\* returns exactly the min(n, k) most recent of the k eligible messages, most
\* recent first; the eligible messages are all messages of the conversation,
\* or with before_timestamp t those with created_at < t.
C6_LimitReturnsMostRecent ==
    Quiescent =>
    \A c \in ConvIds, limit \in Limits :
        LET all == {m \in messages_by_conversation : m.conversation_id = c}
            data == GetConversationMessages(c, 1, limit).data
        IN  /\ MostRecentFirst(data, all, limit)
            /\ \A t \in Cursors :
                 LET before == {m \in all : m.created_at < t}
                     older == GetMessagesBeforeTimestamp(c, t, 1, limit).data
                 IN  MostRecentFirst(older, before, limit)

\* three messages at t1 < t2 < t3: limit 2 returns those at t3, t2, and
\* before_timestamp t3 with limit 2 those at t2, t1
C6_Witness ==
    /\ Quiescent
    /\ \E c \in ConvIds :
       \E m1 \in MessagesOf(c), m2 \in MessagesOf(c), m3 \in MessagesOf(c) :
           /\ m1.created_at < m2.created_at /\ m2.created_at < m3.created_at
           /\ GetConversationMessages(c, 1, 2).data
                  = <<MessageItem(m3), MessageItem(m2)>>
           /\ GetMessagesBeforeTimestamp(c, m3.created_at, 1, 2).data
                  = <<MessageItem(m2), MessageItem(m1)>>

\* the only request so far was a send_message between two different users,
\* and it has returned r
FirstMessageSent(r) ==
    /\ Quiescent
    /\ sends = 1
    /\ responses = {r}
    /\ r.sender_id # r.receiver_id

\* C7: if A and B have never conversed and send_message(A, B, text) completes,
\* a new conversation exists, and get_user_conversations of A and of B each
\* have total 1 and exactly one item, with that conversation's id and
\* last_message_content = text.
C7_FirstMessageListedForBoth ==
    \A r \in responses :
        FirstMessageSent(r) =>
            /\ \E c \in conversations :
                 /\ conversations = {c}
                 /\ c.conversation_id = r.conversation_id
                 /\ c.participant_ids = {r.sender_id, r.receiver_id}
            /\ \A u \in {r.sender_id, r.receiver_id}, page \in Pages, limit \in Limits :
                 \A rep \in GetUserConversations(u, page, limit) :
                     /\ rep.status = 200
                     /\ rep.total = 1
                     /\ Len(rep.data) = 1
                     /\ rep.data[1].id = r.conversation_id
                     /\ rep.data[1].last_message_content = r.content

C7_Witness ==
    \E r \in responses :
        /\ FirstMessageSent(r)
        /\ r.content = "hi"
        /\ \E rep \in GetUserConversations(r.receiver_id, 1, 1) :
             /\ rep.status = 200 /\ rep.total = 1
             /\ rep.data[1].user2_id = r.sender_id
             /\ rep.data[1].last_message_content = "hi"

\* C8: after any sequence of completed send_message operations, every
\* conversation has exactly one user_conversations row in each participant's
\* partition, and that row carries the conversation's participant_ids.
C8_OneIndexRowPerParticipant ==
    Quiescent =>
        \A c \in conversations : \A u \in c.participant_ids :
            LET rows == {x \in user_conversations :
                            x.user_id = u /\ x.conversation_id = c.conversation_id}
            IN  /\ Cardinality(rows) = 1
                /\ \A x \in rows : x.participant_ids = c.participant_ids

\* a later message moved the rows of a conversation to a later timestamp
C8_Witness ==
    /\ Quiescent
    /\ \E r1 \in responses, r2 \in responses :
         /\ r1.conversation_id = r2.conversation_id
         /\ r1.created_at < r2.created_at
         /\ r1.sender_id # r1.receiver_id
         /\ \A u \in {r1.sender_id, r1.receiver_id} :
              \E x \in user_conversations :
                  /\ x.user_id = u /\ x.conversation_id = r1.conversation_id
                  /\ x.last_message_timestamp = r2.created_at

\* C9: under any interleaving of send_message requests (between two
\* different users), the last_message_timestamp of a participant's
\* user_conversations row for a conversation never decreases from one state to
\* the next.
C9_IndexTimestampNeverDecreases ==
    [][NoSelfMessage' =>
          \A x \in user_conversations : \A y \in user_conversations' :
              (x.user_id = y.user_id /\ x.conversation_id = y.conversation_id)
                  => y.last_message_timestamp >= x.last_message_timestamp]_vars

\* the latest created_at among the messages of conversation c
LatestCreatedAt(c) ==
    CHOOSE t \in {m.created_at : m \in MessagesOf(c)} :
        \A m \in MessagesOf(c) : m.created_at <= t

\* C10: whenever no send_message is in progress (none failed, none was sent
\* to oneself), for every conversation with a message both participants'
\* user_conversations rows have last_message_timestamp equal to the created_at
\* of the most recent message of the conversation, which is the created_at of
\* that send's response.
C10_IndexTimestampIsLatestMessage ==
    (Quiescent /\ NoSelfMessage) =>
        \A c \in conversations :
            MessagesOf(c.conversation_id) # {} =>
                /\ \A u \in c.participant_ids :
                     \E x \in user_conversations :
                         x.user_id = u /\ x.conversation_id = c.conversation_id
                /\ \A x \in user_conversations :
                     x.conversation_id = c.conversation_id =>
                         x.last_message_timestamp = LatestCreatedAt(c.conversation_id)
                /\ \A m \in MessagesOf(c.conversation_id) :
                     \E r \in responses : r.id = m.message_id /\ r.created_at = m.created_at

\* C11: in every reachable state, also in the middle of a send_message and
\* after a send_message that failed at any step, every row of
\* messages_by_conversation has a conversation_id for which conversations
\* has a row.
C11_MessageHasConversation ==
    \A m \in messages_by_conversation :
        \E c \in conversations : c.conversation_id = m.conversation_id

\* a failed send_message left a conversation without a message, next to a
\* conversation that has one, and another send_message is past its insert
C11_Witness ==
    /\ \E c \in conversations : MessagesOf(c.conversation_id) = {}
    /\ \E c \in conversations : MessagesOf(c.conversation_id) # {}
    /\ pc["p1"] = "update_index"
    /\ \E m \in messages_by_conversation : m.message_id = req["p1"].message_id

\* the step in which the index update of request p raises
UpdateRaises(p) ==
    /\ pc[p] = "update_index"
    /\ pc'[p] = "idle"
    /\ errors'[p] = 500

\* C15: if the index update of send_message fails after the message insert
\* succeeded, send_message reports a failure (HTTP 500, no response), nothing
\* is deleted: the three tables are as before the failure, so the index rows
\* keep their last_message_timestamp; the message row is there, is returned
\* by get_conversation_messages (served from these unchanged tables) and
\* counted in its total; and no later step removes a message row.
C15_FailedUpdateKeepsMessage ==
    [][/\ messages_by_conversation \subseteq messages_by_conversation'
       /\ \A p \in Procs :
            UpdateRaises(p) =>
                /\ responses' = responses
                /\ conversations' = conversations
                /\ user_conversations' = user_conversations
                /\ messages_by_conversation' = messages_by_conversation
                /\ \E c \in conversations' :
                     c.conversation_id = req[p].conversation_id
                /\ \E m \in messages_by_conversation' :
                     /\ m.message_id = req[p].message_id
                     /\ m.conversation_id = req[p].conversation_id
                     /\ m.created_at = req[p].timestamp
                /\ LET rep == GetConversationMessages(
                                  req[p].conversation_id, 1, MaxLimit)
                   IN  /\ \E i \in 1..Len(rep.data) :
                            /\ rep.data[i].id = req[p].message_id
                            /\ rep.data[i].content = req[p].content
                       /\ rep.total =
                            Cardinality({m \in messages_by_conversation :
                                m.conversation_id = req[p].conversation_id})]_vars

\* a send_message to an existing conversation failed at the index update: its
\* message is listed and the index rows are at an earlier timestamp
C15_Witness ==
    /\ Quiescent
    /\ errors["p1"] = 500
    /\ \E m \in messages_by_conversation :
         /\ \A r \in responses : r.id # m.message_id
         /\ \E r \in responses : r.conversation_id = m.conversation_id
         /\ \E x \in user_conversations : x.conversation_id = m.conversation_id
         /\ \A x \in user_conversations :
              x.conversation_id = m.conversation_id
                  => x.last_message_timestamp < m.created_at
         /\ \E i \in 1..MaxLimit :
              LET rep == GetConversationMessages(m.conversation_id, 1, MaxLimit)
              IN  i <= Len(rep.data) /\ rep.data[i].id = m.message_id

\* C12: send_message with sender_id = receiver_id fails as invalid input and
\* writes no row: no such request returns a response, no message row has the
\* identifier of such a request, and every conversation, in conversations and
\* in user_conversations, has a participant set of exactly two distinct users.
C12_SelfMessageRejected ==
    /\ \A p \in InFlight :
         req[p].sender_id = req[p].receiver_id =>
             \A m \in messages_by_conversation : m.message_id # req[p].message_id
    /\ \A r \in responses : r.sender_id # r.receiver_id
    /\ \A c \in conversations : Cardinality(c.participant_ids) = 2
    /\ \A x \in user_conversations : Cardinality(x.participant_ids) = 2

\* C13: a get_conversation request for a conversation_id that has no row in
\* conversations yields HTTP 404, which is not the HTTP 500 of a storage
\* failure; a request for an id that has a row never yields 404; and the
\* request changes no table.
C13_NotFoundOnlyForMissing ==
    [][reply' # reply =>
          /\ reply'.status \in {200, 404, 500}
          /\ reply'.status = 404 <=>
                 \A c \in conversations : c.conversation_id # reply'.id
          /\ conversations' = conversations
          /\ user_conversations' = user_conversations
          /\ messages_by_conversation' = messages_by_conversation]_vars

\* the last get_conversation asked for an id that no conversation has, while
\* another conversation exists
C13_Witness ==
    /\ reply.status = 404
    /\ conversations # {}
    /\ \A c \in conversations : c.conversation_id # reply.id

\* C14: for every user and in every reachable state, every response of
\* get_user_conversations(user) lists only conversations whose participant
\* set contains the user, and the other participant reported for an item is
\* a member of that set different from the user.
C14_ListsOnlyOwnConversations ==
    \A u \in Users, limit \in Limits :
        \A rep \in GetUserConversations(u, 1, limit) :
            rep.status = 200 =>
                \A i \in 1..Len(rep.data) :
                    /\ rep.data[i].user1_id = u
                    /\ rep.data[i].user2_id # u
                    /\ \E c \in conversations :
                         /\ c.conversation_id = rep.data[i].id
                         /\ u \in c.participant_ids
                         /\ rep.data[i].user2_id \in c.participant_ids

\* a user is listed two conversations with two different users
C14_Witness ==
    \E u \in Users :
        \E rep \in GetUserConversations(u, 1, MaxLimit) :
            /\ rep.status = 200
            /\ Len(rep.data) = 2
            /\ rep.data[1].user2_id # rep.data[2].user2_id
            /\ rep.data[1].user2_id # u /\ rep.data[2].user2_id # u

\* C16: after any sequence of completed send_message operations,
\* get_user_conversations(user) lists the user's conversations by most recent
\* activity first: if the latest message of conversation X is later than the
\* latest message of conversation Y, X is listed before Y.
C16_MostRecentActivityFirst ==
    Quiescent =>
        \A u \in Users :
            \A rep \in GetUserConversations(u, 1, MaxLimit) :
                rep.status = 200 =>
                    \A i \in 1..Len(rep.data), j \in 1..Len(rep.data) :
                        (/\ MessagesOf(rep.data[i].id) # {}
                         /\ MessagesOf(rep.data[j].id) # {}
                         /\ LatestCreatedAt(rep.data[i].id)
                                > LatestCreatedAt(rep.data[j].id))
                            => i < j

\* a client pages backward from before_timestamp t, n messages a request,
\* taking created_at of the last item as the next cursor, until a request
\* returns no item or it has made `left` requests
RECURSIVE PagesBefore(_, _, _, _)
PagesBefore(c, t, n, left) ==
    LET data == GetMessagesBeforeTimestamp(c, t, 1, n).data IN
    IF left = 0 \/ data = <<>> THEN <<>>
    ELSE data \o PagesBefore(c, data[Len(data)].created_at, n, left - 1)

\* the concatenation of the pages, from get_conversation_messages on; a
\* conversation has at most MaxSends messages, so that MaxSends + 1 requests
\* reach the empty page
PageBackward(c, n) ==
    LET data == GetConversationMessages(c, 1, n).data IN
    IF data = <<>> THEN <<>>
    ELSE data \o PagesBefore(c, data[Len(data)].created_at, n, MaxSends + 1)

\* the full message list of c, most recent first
AllMessages(c) == MessageItems(MessageOrder(MessagesOf(c)))

\* C17 as stated: paging backward through conversation c with the timestamp
\* cursor returns, concatenated, exactly the full message list of c in
\* most-recent-first order, also when messages of c share a created_at.
C17_PagingVisitsEveryMessageOnce ==
    Quiescent =>
        \A c \in ConvIds, n \in Limits : PageBackward(c, n) = AllMessages(c)

\* C17 amended: paging backward through conversation c with the timestamp
\* cursor returns messages of c only, none twice, most recent first (ties by
\* message id descending); a message it does not return has the created_at of
\* a message it returns; and when no two messages of c share a created_at the
\* concatenation is exactly the full message list of c.
C17_PagingSkipsOnlyTies ==
    Quiescent =>
        \A c \in ConvIds, n \in Limits :
            LET walk == PageBackward(c, n)
                all == AllMessages(c)
            IN  /\ \A i \in 1..Len(walk) : \E k \in 1..Len(all) : walk[i] = all[k]
                /\ \A i \in 1..Len(walk), j \in 1..Len(walk) :
                     i < j => \/ walk[i].created_at > walk[j].created_at
                              \/ /\ walk[i].created_at = walk[j].created_at
                                 /\ walk[i].id > walk[j].id
                /\ \A k \in 1..Len(all) :
                     (\A i \in 1..Len(walk) : walk[i] # all[k]) =>
                         \E i \in 1..Len(walk) :
                             walk[i].created_at = all[k].created_at
                /\ (\A k \in 1..Len(all), l \in 1..Len(all) :
                        k # l => all[k].created_at # all[l].created_at)
                       => walk = all

\* three messages, the two older ones at the same created_at: paging by one
\* returns the newest and one of the two
C17_Witness ==
    /\ Quiescent
    /\ \E c \in ConvIds :
         LET walk == PageBackward(c, 1)
             all == AllMessages(c)
         IN  /\ Len(all) = 3 /\ Len(walk) = 2
             /\ all[1].created_at > all[2].created_at
             /\ all[2].created_at = all[3].created_at
             /\ walk = <<all[1], all[2]>>

C19_ResolutionSymmetric ==
    \A r1 \in responses :
        r1.sender_id # r1.receiver_id =>
            /\ \A r2 \in responses :
                 (r2.sender_id = r1.receiver_id /\ r2.receiver_id = r1.sender_id)
                     => r2.conversation_id = r1.conversation_id
            /\ \A p \in InFlight :
                 (req[p].sender_id = r1.receiver_id /\ req[p].receiver_id = r1.sender_id)
                     => /\ req[p].conversation_id = r1.conversation_id
                        /\ pc[p] \in {"insert_message", "update_index"}
            /\ Cardinality({c \in conversations :
                   c.participant_ids = {r1.sender_id, r1.receiver_id}}) = 1

\* A wrote to B, something else was sent, then B wrote to A: the first and
\* the last message are in the same conversation
C19_Witness ==
    /\ Quiescent
    /\ \E r1 \in responses, r2 \in responses, r3 \in responses :
         /\ r1.id < r2.id /\ r2.id < r3.id
         /\ r1.sender_id # r1.receiver_id
         /\ r3.sender_id = r1.receiver_id /\ r3.receiver_id = r1.sender_id
         /\ r3.conversation_id = r1.conversation_id
         /\ Cardinality({x \in user_conversations :
                x.conversation_id = r1.conversation_id}) = 2

\* C20: every CassandraClient() call that returns normally returns the
\* instance with an established session, also after a first call whose
\* connection attempt raised, and a connection is established at most once.
C20_ClientAlwaysConnected ==
    /\ \A h \in handed : h # None
    /\ connects <= 1

=============================================================================
